---------------------------- MODULE Spec2Model ----------------------------
(***************************************************************************)
(* A model of google_photos_takeout_helper/__main__.py.                    *)
(*                                                                         *)
(* Parts of main() are modelled, each under its own specification:         *)
(*   SpecDedup  remove_duplicates / find_duplicates / get_hash             *)
(*   SpecFix    the fix_metadata walk of for_all_files_recursive           *)
(*   SpecGeo    set_file_geo_data / degToDmsRational on its own            *)
(*   SpecNamer  copy_to_target / new_name_if_exists                        *)
(*   SpecExif   set_creation_date_from_exif on its own                     *)
(*   SpecAlbum  the whole run with --albums json: the fix_metadata walk,   *)
(*              the copy, remove_duplicates, populate_album_map            *)
(* The variables of the parts a specification does not exercise stay at    *)
(* their initial value under it.                                           *)
(***************************************************************************)
EXTENDS Integers, Sequences, FiniteSets, TLC

VARIABLES
    \* ---- duplicate removal (the output tree FIXED_DIR) ----
    out_tree,                   \* file id -> [content, suffix, access]: what rglob finds
    on_disk,                    \* ids of the files that currently exist
    files_by_full_hash,         \* module-level multimap: sequence of [key, files]
    s_removed_duplicates_count, \* main's statistic
    dd_pc,                      \* position in remove_duplicates
    dd_runs,                    \* calls of remove_duplicates so far
    groups_at_scan,             \* files_by_full_hash as find_duplicates left it (history)
    unlink_log,                 \* files actually unlinked, in order (history)
    hash_calls,                 \* the get_hash calls of the last find_duplicates (history)
    \* ---- copying into FIXED_DIR ----
    target_init,                \* the names FIXED_DIR held when the run began
    target_files,               \* the names that exist in FIXED_DIR
    rename_map,                 \* main's dict: proposed name -> last new_name
    s_copied_files,             \* main's statistic
    nm_walked,                  \* files the walk has handed to copy_to_target
    nm_calls,                   \* the calls of new_name_if_exists so far (history)
    \* ---- the fix_metadata walk over PHOTOS_DIR ----
    in_tree,                    \* the input tree: folders, sidecar titles, album JSONs
    fx_pc,                      \* position in main: "walk", "copy" or "crashed"
                                \* ("idle", "returned": around a call made on its own)
    fx_next,                    \* the next media file of the walk
    s_cant_insert_exif_files,   \* main's lists, as sequences of media files
    s_date_from_folder_files,
    s_no_json_found,
    s_no_date_at_all,
    all_jsons_dict,             \* the folders that are keys of _all_jsons_dict
    album_cache,                \* lru_cache of find_album_meta_json_file, per folder
    index_scans,                \* per folder: rglob scans by find_json_for_file (history)
    album_scans,                \* per folder: scans by find_album_meta_json_file (history)
    cur,                        \* the frame the last fix_metadata call ended with
    \* ---- the whole run with --albums json ----
    in_files,                   \* the media files of PHOTOS_DIR in walk order
    album_mmap,                 \* main's multimap: folder -> names, in append order
    al_next,                    \* the next folder of the populate_album_map walk
    al_pc                       \* position in main: "fix", "copy", "dedup", "albums",
                                \* "done", "crashed" or "exited" (exit(-5))

vars == << out_tree, on_disk, files_by_full_hash, s_removed_duplicates_count,
           dd_pc, dd_runs, groups_at_scan, unlink_log, hash_calls,
           target_init, target_files, rename_map, s_copied_files, nm_walked,
           nm_calls,
           in_tree, fx_pc, fx_next, s_cant_insert_exif_files, s_date_from_folder_files,
           s_no_json_found, s_no_date_at_all, all_jsons_dict, album_cache, index_scans,
           album_scans, cur, in_files, album_mmap, al_next, al_pc >>

fxVars == << in_tree, fx_pc, fx_next, s_cant_insert_exif_files, s_date_from_folder_files,
             s_no_json_found, s_no_date_at_all, all_jsons_dict, album_cache, index_scans,
             album_scans, cur >>

nmVars == << target_init, target_files, rename_map, s_copied_files, nm_walked,
           nm_calls >>

ddVars == << out_tree, on_disk, files_by_full_hash, s_removed_duplicates_count,
             dd_pc, dd_runs, groups_at_scan, unlink_log, hash_calls >>

alVars == << in_files, album_mmap, al_next, al_pc >>

(***************************************************************************)
(* Bounds of the model.                                                    *)
(***************************************************************************)
NumFiles == 4       \* files in the scanned tree
MaxBlocks == 2      \* longest file content, in 1024-byte blocks
MaxFaulty == 1      \* files that are not media or not accessible
MaxRuns == 2        \* calls of remove_duplicates in one process
MaxCopies == 3      \* files handed to copy_to_target in one run
NumMedia == 2       \* media files the fix_metadata walk visits
NumFolders == 2     \* folders of the input tree
NumInputs == 4      \* media files of the input tree in a whole run

(***************************************************************************)
(* Small helpers.                                                          *)
(***************************************************************************)
Min(a, b) == IF a < b THEN a ELSE b

Range(s) == { s[i] : i \in 1..Len(s) }

\* mutant: files.remove(file) leaves the list as it is
ListRemove_nothing(s, x) == s

\* list.remove(x): drops the first element equal to x
RECURSIVE ListRemove(_, _)
ListRemove(s, x) ==
    IF s = << >> THEN << >>
    ELSE IF Head(s) = x THEN Tail(s)
    ELSE << Head(s) >> \o ListRemove(Tail(s), x)

(***************************************************************************)
(* File classification: is_photo / is_video with --skip-extras and         *)
(* --skip-extras-harder off (their defaults), where is_photo is the        *)
(* suffix test alone.  Suffixes are already lower case.                    *)
(***************************************************************************)
photo_formats == { ".jpg", ".jpeg", ".png", ".webp", ".bmp", ".tif", ".tiff",
                   ".svg", ".heic" }

video_formats == { ".mp4", ".gif", ".mov", ".webm", ".avi", ".wmv", ".rm",
                   ".mpg", ".mpe", ".mpeg", ".mkv", ".m4v", ".mts", ".m2ts" }

is_photo(suffix) == suffix \in photo_formats

is_video(suffix) == suffix \in video_formats

MediaFilter(suffix) == is_photo(suffix) \/ is_video(suffix)

(***************************************************************************)
(* File contents and hashing.                                              *)
(* A content is a sequence of blocks, each block standing for 1024 bytes   *)
(* of data; two blocks are equal iff their bytes are.  sha1 is modelled as *)
(* collision free: a digest is a tagged copy of the bytes it was fed.      *)
(***************************************************************************)
CHUNK_SIZE == 1024

Blocks == { 0, 1 }

Contents == UNION { [1..n -> Blocks] : n \in 0..MaxBlocks }

StSize(content) == CHUNK_SIZE * Len(content)

\* fobj.read(n) from the start of the file
ReadFirst(content, n) == SubSeq(content, 1, Min(Len(content), n \div CHUNK_SIZE))

Sha1(data) == [algo |-> "sha1", of |-> data]

\* chunk_reader: the chunks of 1024 bytes, in order, until an empty read
RECURSIVE ChunkReader(_)
ChunkReader(content) ==
    IF ReadFirst(content, CHUNK_SIZE) = << >> THEN << >>
    ELSE ReadFirst(content, CHUNK_SIZE)
         \o ChunkReader(SubSeq(content, Len(ReadFirst(content, CHUNK_SIZE)) + 1, Len(content)))

\* mutant: the full-file mode hashes the first chunk only
get_hash_first_chunk_always(content, first_chunk_only) ==
    Sha1(ReadFirst(content, 1024))

get_hash(content, first_chunk_only) ==
    IF first_chunk_only THEN Sha1(ReadFirst(content, 1024))
    ELSE Sha1(ChunkReader(content))

(***************************************************************************)
(* defaultdict(list) multimaps, kept in insertion order of their keys.     *)
(***************************************************************************)
MMHas(mm, k) == \E i \in 1..Len(mm) : mm[i].key = k

MMAppend(mm, k, v) ==
    IF MMHas(mm, k)
    THEN LET i == CHOOSE j \in 1..Len(mm) : mm[j].key = k
         IN  [mm EXCEPT ![i].files = Append(@, v)]
    ELSE Append(mm, [key |-> k, files |-> << v >>])

(***************************************************************************)
(* find_duplicates: the three tiers.  rglob yields the existing files in   *)
(* the order of their ids.  access is "ok", "nostat" (stat raises OSError) *)
(* or "noread" (open raises OSError).                                      *)
(***************************************************************************)
\* tier 1: the filtered files whose size can be read, grouped by byte size
RECURSIVE GroupBySize(_, _, _, _)
GroupBySize(tree, disk, i, acc) ==
    IF i > Len(tree) THEN acc
    ELSE IF i \in disk /\ MediaFilter(tree[i].suffix) /\ tree[i].access # "nostat"
         THEN GroupBySize(tree, disk, i + 1, MMAppend(acc, StSize(tree[i].content), i))
         ELSE GroupBySize(tree, disk, i + 1, acc)

\* tier 2, inner loop: the files of one size group, keyed by (size, small hash)
RECURSIVE SmallHashFiles(_, _, _, _, _)
SmallHashFiles(tree, file_size, files, j, acc) ==
    IF j > Len(files) THEN acc
    ELSE IF tree[files[j]].access = "noread"
         THEN SmallHashFiles(tree, file_size, files, j + 1, acc)
         ELSE SmallHashFiles(tree, file_size, files, j + 1,
                  MMAppend(acc, << file_size, get_hash(tree[files[j]].content, TRUE) >>,
                           files[j]))

\* tier 2, outer loop: size groups of fewer than two files are skipped
RECURSIVE GroupBySmallHash(_, _, _, _)
GroupBySmallHash(tree, by_size, i, acc) ==
    IF i > Len(by_size) THEN acc
    ELSE IF Len(by_size[i].files) < 2
         THEN GroupBySmallHash(tree, by_size, i + 1, acc)
         ELSE GroupBySmallHash(tree, by_size, i + 1,
                  SmallHashFiles(tree, by_size[i].key, by_size[i].files, 1, acc))

\* tier 3, inner loop: the files of one (size, small hash) group, keyed by full hash
RECURSIVE FullHashFiles(_, _, _, _)
FullHashFiles(tree, files, j, acc) ==
    IF j > Len(files) THEN acc
    ELSE IF tree[files[j]].access = "noread"
         THEN FullHashFiles(tree, files, j + 1, acc)
         ELSE FullHashFiles(tree, files, j + 1,
                  MMAppend(acc, get_hash(tree[files[j]].content, FALSE), files[j]))

\* tier 3, outer loop: appends to the process-wide files_by_full_hash
RECURSIVE GroupByFullHash(_, _, _, _)
GroupByFullHash(tree, by_small, i, acc) ==
    IF i > Len(by_small) THEN acc
    ELSE IF Len(by_small[i].files) < 2
         THEN GroupByFullHash(tree, by_small, i + 1, acc)
         ELSE GroupByFullHash(tree, by_small, i + 1,
                  FullHashFiles(tree, by_small[i].files, 1, acc))

\* find_duplicates(path, filter): the new value of files_by_full_hash
find_duplicates(tree, disk, by_full) ==
    LET files_by_size       == GroupBySize(tree, disk, 1, << >>)
        files_by_small_hash == GroupBySmallHash(tree, files_by_size, 1, << >>)
    IN  GroupByFullHash(tree, files_by_small_hash, 1, by_full)

\* lines 199-203 and 211-215: get_hash is called on every file of every list
\* of two or more files of the multimap the loop walks
HashCallsOf_every_list(mm) ==
    UNION { Range(mm[i].files) : i \in 1..Len(mm) }

HashCallsOf(mm) ==
    UNION { Range(mm[i].files) : i \in { k \in 1..Len(mm) : Len(mm[k].files) >= 2 } }

\* find_duplicates: the files get_hash was called on, by mode
find_duplicates_hash_calls(tree, disk) ==
    LET files_by_size       == GroupBySize(tree, disk, 1, << >>)
        files_by_small_hash == GroupBySmallHash(tree, files_by_size, 1, << >>)
    IN  [partial |-> HashCallsOf(files_by_size), full |-> HashCallsOf(files_by_small_hash)]

(***************************************************************************)
(* remove_duplicates, lines 330-339.                                       *)
(* `for file in files` walks the list by index while files.remove(file)    *)
(* shortens it.  file.unlink() raises when the file is gone or when the    *)
(* environment refuses it (the ids in failing); the exception leaves       *)
(* remove_duplicates.  A loop state is [groups, disk, count, log, crashed].*)
(***************************************************************************)
UnlinkRaises(file, disk, failing) == file \notin disk \/ file \in failing

\* the inner loop over one group, at list index j
RECURSIVE RemoveInGroup(_, _, _, _)
RemoveInGroup(st, g, j, failing) ==
    LET files == st.groups[g].files
    IN  IF j > Len(files) THEN st
        ELSE IF Len(files) > 1
             THEN IF UnlinkRaises(files[j], st.disk, failing)
                  THEN [st EXCEPT !.crashed = TRUE]
                  ELSE RemoveInGroup(
                           [st EXCEPT !.disk = @ \ { files[j] },
                                      !.log = Append(@, files[j]),
                                      !.groups[g].files = ListRemove(@, files[j])],
                           g, j + 1, failing)
             ELSE RemoveInGroup(st, g, j + 1, failing)

\* the outer loop over files_by_full_hash.values(), at group index g
RECURSIVE RemoveGroups(_, _, _)
RemoveGroups(st, g, failing) ==
    IF st.crashed \/ g > Len(st.groups) THEN st
    ELSE IF Len(st.groups[g].files) < 2
         THEN RemoveGroups(st, g + 1, failing)
         ELSE RemoveGroups(
                  RemoveInGroup(
                      [st EXCEPT !.count = @ + Len(st.groups[g].files) - 1],
                      g, 1, failing),
                  g + 1, failing)

(***************************************************************************)
(* Date strings.  A date string is [fmt, ts]: ts is the moment it names    *)
(* (seconds since the epoch, in the process's time zone) and fmt is how    *)
(* it is written:                                                          *)
(*   "colon"     YYYY:MM:DD HH:MM:SS                                       *)
(*   "dash", "slash", "dot", "backslash"   that separator in the date      *)
(*   "padded"    a blank in place of a leading zero, as in "10:54: 1"     *)
(*   "long"      a well-formed date followed by more characters            *)
(*   "garbage"   anything strptime cannot read                             *)
(***************************************************************************)
DateStr(fmt, ts) == [fmt |-> fmt, ts |-> ts]

DateFormats == { "colon", "dash", "slash", "dot", "backslash", "padded", "long", "garbage" }

\* lines 424-430: the replace() chain and the cut to 19 characters
NormalizeDate(str_datetime) ==
    IF str_datetime.fmt \in { "colon", "dash", "slash", "dot", "backslash", "padded", "long" }
    THEN DateStr("colon", str_datetime.ts)
    ELSE str_datetime

\* _datetime.strptime(str, "%Y:%m:%d %H:%M:%S") succeeds
Strptime(str_datetime) == str_datetime.fmt = "colon"

\* _datetime.fromtimestamp(t).strftime("%Y:%m:%d %H:%M:%S")
Strftime(ts) == DateStr("colon", ts)

\* "1971:01:01 01:01:01"
DATE_NOT_FOUND_DATE == DateStr("colon", 31539661)

(***************************************************************************)
(* The EXIF data of a file as piexif sees it: whether load() succeeds, the *)
(* three date tags in the order of `tags` (306, DateTimeOriginal,          *)
(* DateTimeDigitized), and the GPS IFD.                                    *)
(***************************************************************************)
NoTag == [present |-> FALSE, str |-> DateStr("garbage", 0)]

Tag(str) == [present |-> TRUE, str |-> str]

\* a rational as piexif takes it: (numerator, denominator)
Rational(n, d) == [n |-> n, d |-> d]

ZeroDms == << Rational(0, 1), Rational(0, 1), Rational(0, 100) >>

\* no GPS IFD.  ifd says that the IFD is there, with its GPSVersionID; the
\* position tags (the two refs and the two DMS triples) are there when
\* position holds, the altitude tags (GPSAltitudeRef, GPSAltitude) when
\* has_altitude holds.
NoGps == [ifd |-> FALSE, position |-> FALSE,
          latitude_ref |-> "-", latitude |-> ZeroDms,
          longitude_ref |-> "-", longitude |-> ZeroDms,
          has_altitude |-> FALSE, altitude_ref |-> 0, altitude |-> Rational(0, 1)]

\* the fallback dict of lines 476 and 531: {"0th": {}, "Exif": {}}
EmptyExif == [loadable |-> TRUE, tags |-> << NoTag, NoTag, NoTag >>, gps |-> NoGps]

(***************************************************************************)
(* A frame carries what one fix_metadata call reads and changes: the file  *)
(* (exif, mtime), what the environment lets it do, main's lists and        *)
(* caches, a log of the writes it attempted, and the exception in flight   *)
(* (exc, "none" when there is none).                                       *)
(***************************************************************************)
Raise(fr, exception) == [fr EXCEPT !.exc = exception]

Caught(fr) == [fr EXCEPT !.exc = "none"]

\* a set_creation_date_from_str that parses the date and leaves the file alone
set_creation_date_from_str_no_utime(fr, step, str_datetime) ==
    LET normal == NormalizeDate(str_datetime)
        ok     == Strptime(normal) /\ fr.utime_ok
    IN  [fr EXCEPT !.str_calls = Append(@, [step |-> step, date |-> str_datetime, ok |-> ok]),
                   !.exc = IF ok THEN "none" ELSE "ValueError"]

\* set_creation_date_from_str(file, str_datetime), lines 418-440
set_creation_date_from_str(fr, step, str_datetime) ==
    LET normal == NormalizeDate(str_datetime)
        ok     == Strptime(normal) /\ fr.utime_ok
    IN  [fr EXCEPT !.str_calls = Append(@, [step |-> step, date |-> str_datetime, ok |-> ok]),
                   !.mtime = IF ok THEN normal.ts ELSE @,
                   !.exc = IF ok THEN "none" ELSE "ValueError"]

\* mutant: a tag in a wrong format ends the search
RECURSIVE ExifTagLoop_stops_at_bad_tag(_, _)
ExifTagLoop_stops_at_bad_tag(fr, k) ==
    IF k > Len(fr.exif.tags) THEN Raise(fr, "IOError")
    ELSE IF ~fr.exif.tags[k].present THEN ExifTagLoop_stops_at_bad_tag(fr, k + 1)
    ELSE LET r == set_creation_date_from_str(fr, "exif", fr.exif.tags[k].str)
         IN  IF r.exc = "none" THEN r
             ELSE Raise(r, "IOError")

\* set_creation_date_from_exif, lines 456-469: the loop over `tags` from tag k
RECURSIVE ExifTagLoop(_, _)
ExifTagLoop(fr, k) ==
    IF k > Len(fr.exif.tags) THEN Raise(fr, "IOError")
    ELSE IF ~fr.exif.tags[k].present THEN ExifTagLoop(fr, k + 1)       \* KeyError: pass
    ELSE LET r == set_creation_date_from_str(fr, "exif", fr.exif.tags[k].str)
         IN  IF r.exc = "none" THEN r                                    \* break
             ELSE ExifTagLoop(Caught(r), k + 1)                          \* ValueError

\* set_creation_date_from_exif(file), lines 443-469
set_creation_date_from_exif(fr) ==
    IF ~fr.exif.loadable THEN Raise(fr, "IOError")
    ELSE ExifTagLoop(fr, 1)

\* a set_file_exif_date that lets the failure of piexif.insert out
set_file_exif_date_raising(fr, step, creation_date) ==
    LET exif_dict == IF fr.exif.loadable THEN fr.exif ELSE EmptyExif
        dated     == [exif_dict EXCEPT !.tags = [k \in 1..3 |-> Tag(creation_date)]]
    IN  IF fr.date_insert_ok
        THEN [fr EXCEPT !.exif = dated,
                        !.exif_date_calls = Append(@, [step |-> step, date |-> creation_date,
                                                       inserted |-> TRUE])]
        ELSE [fr EXCEPT !.exif_date_calls = Append(@, [step |-> step, date |-> creation_date,
                                                       inserted |-> FALSE]),
                        !.s_cant_insert_exif_files = Append(@, fr.file),
                        !.exc = "Exception"]

\* set_file_exif_date(file, creation_date), lines 472-487
set_file_exif_date(fr, step, creation_date) ==
    LET exif_dict == IF fr.exif.loadable THEN fr.exif ELSE EmptyExif
        dated     == [exif_dict EXCEPT !.tags = [k \in 1..3 |-> Tag(creation_date)]]
    IN  IF fr.date_insert_ok
        THEN [fr EXCEPT !.exif = dated,
                        !.exif_date_calls = Append(@, [step |-> step, date |-> creation_date,
                                                       inserted |-> TRUE])]
        ELSE [fr EXCEPT !.exif_date_calls = Append(@, [step |-> step, date |-> creation_date,
                                                       inserted |-> FALSE]),
                        !.s_cant_insert_exif_files = Append(@, fr.file)]

(***************************************************************************)
(* Sidecar JSON.  photoTakenTime is [present, ts]; geoData and geoDataExif *)
(* are [present, latitude, longitude, altitude], a coordinate being        *)
(* [num, v]: a number v, or (num = FALSE) a string.                        *)
(***************************************************************************)
Num(v) == [num |-> TRUE, v |-> v]

NotNum == [num |-> FALSE, v |-> 0]

NoGeo == [present |-> FALSE, latitude |-> Num(0), longitude |-> Num(0), altitude |-> Num(0)]

Geo(lat, lon, alt) == [present |-> TRUE, latitude |-> lat, longitude |-> lon, altitude |-> alt]

\* _str_to_float, lines 534-538
str_to_float(value) == IF ~value.num THEN 0 ELSE value.v

\* get_date_str_from_json, lines 490-493
get_date_str_from_json(fr, json) ==
    IF ~json.photoTakenTime.present THEN Raise(fr, "KeyError") ELSE fr

(***************************************************************************)
(* Coordinates.  A latitude or longitude is an integer number of           *)
(* thousandths of an arc second, an altitude an integer number of          *)
(* decimetres: fine enough for the rounding of degToDmsRational and of     *)
(* round(altitude) to show.                                                *)
(***************************************************************************)
Degree == 60 * 60 * 1000

ArcMinute == 60 * 1000

\* round(x) of Python 3 for x = m / 10: to the nearest integer, ties to even
RoundTenths(m) ==
    LET q == m \div 10
        r == m % 10
    IN  IF r < 5 THEN q
        ELSE IF r > 5 THEN q + 1
        ELSE IF q % 2 = 0 THEN q ELSE q + 1

\* degToDmsRational(degFloat), lines 506-513
degToDmsRational(degFloat) ==
    LET min_float == degFloat % Degree         \* degFloat % 1 * 60, in 1/1000 arc second
        sec_float == min_float % ArcMinute     \* min_float % 1 * 60, in 1/1000 second
        deg       == degFloat \div Degree
        deg_min   == min_float \div ArcMinute
        sec       == RoundTenths(sec_float)    \* round(sec_float * 100)
    IN  << Rational(deg, 1), Rational(deg_min, 1), Rational(sec, 100) >>

\* change_to_rational(round(altitude)), lines 497-503 and 587
change_to_rational(number) == Rational(number, 1)

\* line 547: geoData is blank, geoDataExif is read instead
GeoDataIsBlank_never(longitude, latitude) == FALSE

GeoDataIsBlank(longitude, latitude) == longitude = 0 /\ latitude = 0

\* set_file_geo_data(file, json), lines 515-599.  json_reads is the set of
\* GPS blocks of the sidecar the call has read.
set_file_geo_data(fr, json) ==
    IF ~json.geoData.present THEN Raise(fr, "KeyError")
    ELSE
    LET exif_dict == IF fr.exif.loadable THEN fr.exif ELSE EmptyExif
        lon0 == str_to_float(json.geoData.longitude)
        lat0 == str_to_float(json.geoData.latitude)
        alt0 == str_to_float(json.geoData.altitude)
        fallback == GeoDataIsBlank(lon0, lat0)
        fr1  == [fr EXCEPT !.json_reads = @ \cup (IF fallback THEN { "geoData", "geoDataExif" }
                                                              ELSE { "geoData" })]
    IN  IF fallback /\ ~json.geoDataExif.present THEN Raise(fr1, "KeyError")
        ELSE
        LET lon1 == IF fallback THEN str_to_float(json.geoDataExif.longitude) ELSE lon0
            lat1 == IF fallback THEN str_to_float(json.geoDataExif.latitude) ELSE lat0
            altitude == IF fallback THEN str_to_float(json.geoDataExif.altitude) ELSE alt0
            longitude_ref == IF lon1 >= 0 THEN "E" ELSE "W"
            longitude     == IF lon1 >= 0 THEN lon1 ELSE lon1 * (-1)
            latitude_ref  == IF lat1 >= 0 THEN "N" ELSE "S"
            latitude      == IF lat1 >= 0 THEN lat1 ELSE lat1 * (-1)
            position      == latitude # 0 \/ longitude # 0
            gps_ifd == [ifd           |-> TRUE,
                        position      |-> position,
                        latitude_ref  |-> IF position THEN latitude_ref ELSE "-",
                        latitude      |-> IF position THEN degToDmsRational(latitude)
                                                      ELSE ZeroDms,
                        longitude_ref |-> IF position THEN longitude_ref ELSE "-",
                        longitude     |-> IF position THEN degToDmsRational(longitude)
                                                      ELSE ZeroDms,
                        has_altitude  |-> altitude # 0,
                        altitude_ref  |-> IF altitude # 0 THEN 1 ELSE 0,
                        altitude      |-> IF altitude # 0
                                          THEN change_to_rational(RoundTenths(altitude))
                                          ELSE Rational(0, 1)]
        IN  IF fr1.gps_insert_ok
            THEN [fr1 EXCEPT !.exif = [exif_dict EXCEPT !.gps = gps_ifd],
                             !.gps_calls = Append(@, [inserted |-> TRUE, gps_ifd |-> gps_ifd])]
            ELSE [fr1 EXCEPT !.gps_calls = Append(@, [inserted |-> FALSE, gps_ifd |-> gps_ifd])]

(***************************************************************************)
(* The input tree as the walk finds it (it does not change during the      *)
(* walk: fix_metadata rewrites media files only):                          *)
(*   folder_of[f]   the folder of media file f                             *)
(*   titled         the media files f for which a JSON of another name in  *)
(*                  f's folder carries "title": f.name                     *)
(*   has_titles[d]  folder d holds some parseable JSON with a "title"      *)
(*   album[d]       the first JSON with "albumData" in d: kind "none" (no  *)
(*                  such JSON), "nodate" (no date.timestamp in it), "ok"   *)
(***************************************************************************)
\* a find_json_for_file that goes on to the title index after a literal
\* <name>.json that cannot be parsed
find_json_for_file_falls_through(fr, tree) ==
    IF fr.literal = "parsed" THEN [fr EXCEPT !.json_found = TRUE]
    ELSE
    LET scan   == fr.folder \notin fr.all_jsons_dict
        loaded == IF scan /\ tree.has_titles[fr.folder]
                  THEN fr.all_jsons_dict \cup { fr.folder }
                  ELSE fr.all_jsons_dict
        fr1    == [fr EXCEPT !.all_jsons_dict = loaded,
                             !.index_scans[fr.folder] = IF scan THEN @ + 1 ELSE @]
    IN  IF fr.folder \in loaded /\ fr.file \in tree.titled
        THEN [fr1 EXCEPT !.json_found = TRUE]
        ELSE Raise([fr1 EXCEPT !.s_no_json_found = Append(@, fr.file)], "FileNotFoundError")

\* find_json_for_file(path_obj), lines 343-372.  fr.literal says what is at
\* <name>.json and fr.json is the JSON that belongs to the file.
find_json_for_file(fr, tree) ==
    IF fr.literal = "parsed" THEN [fr EXCEPT !.json_found = TRUE]
    ELSE IF fr.literal = "malformed" THEN Raise(fr, "FileNotFoundError")
    ELSE
    LET scan   == fr.folder \notin fr.all_jsons_dict
        loaded == IF scan /\ tree.has_titles[fr.folder]
                  THEN fr.all_jsons_dict \cup { fr.folder }
                  ELSE fr.all_jsons_dict
        fr1    == [fr EXCEPT !.all_jsons_dict = loaded,
                             !.index_scans[fr.folder] = IF scan THEN @ + 1 ELSE @]
    IN  IF fr.folder \in loaded /\ fr.file \in tree.titled
        THEN [fr1 EXCEPT !.json_found = TRUE]
        ELSE Raise([fr1 EXCEPT !.s_no_json_found = Append(@, fr.file)], "FileNotFoundError")

\* mutant: a lookup that found nothing is made again by the next call
find_album_meta_json_file_forgets_none(fr, tree, dir) ==
    IF fr.album_cache[dir] # "unset" THEN fr
    ELSE [fr EXCEPT !.album_cache[dir] = IF tree.album[dir].kind = "none" THEN "unset" ELSE "file",
                    !.album_scans[dir] = @ + 1]

\* find_album_meta_json_file(dir) under lru_cache, lines 404-415
find_album_meta_json_file(fr, tree, dir) ==
    IF fr.album_cache[dir] # "unset" THEN fr
    ELSE [fr EXCEPT !.album_cache[dir] = IF tree.album[dir].kind = "none" THEN "None" ELSE "file",
                    !.album_scans[dir] = @ + 1]

\* a get_date_from_folder_meta that never finds a date
get_date_from_folder_meta_none(fr, tree, dir) ==
    [find_album_meta_json_file(fr, tree, dir) EXCEPT !.meta_date = NoTag]

\* get_date_from_folder_meta(path_obj), lines 375-401: the frame with the
\* returned date in meta_date (present = FALSE for None)
get_date_from_folder_meta(fr, tree, dir) ==
    LET f == find_album_meta_json_file(fr, tree, dir)
    IN  IF f.album_cache[dir] = "None" THEN [f EXCEPT !.meta_date = NoTag]
        ELSE IF tree.album[dir].kind = "nodate" THEN [f EXCEPT !.meta_date = NoTag]  \* KeyError
        ELSE [f EXCEPT !.meta_date = Tag(Strftime(tree.album[dir].ts))]

Step(fr, step) == [fr EXCEPT !.steps = @ \cup { step }]

\* fix_metadata, lines 633-646: the folder and default steps
FolderFallback(fr, tree) ==
    LET m    == get_date_from_folder_meta(Step(fr, "folder"), tree, fr.folder)
        none == ~m.meta_date.present
        m2   == IF none
                THEN [Step(m, "default") EXCEPT !.s_no_date_at_all = Append(@, fr.file)]
                ELSE m
        step == IF none THEN "default" ELSE "folder"
        meta_date == IF none THEN DATE_NOT_FOUND_DATE ELSE m.meta_date.str
        e    == set_file_exif_date(m2, step, meta_date)
        t    == IF e.exc # "none" THEN e ELSE set_creation_date_from_str(e, step, meta_date)
    IN  IF t.exc # "none" THEN t
        ELSE [t EXCEPT !.s_date_from_folder_files = Append(@, fr.file)]

\* fix_metadata, lines 623-630: the body of the second try block
SidecarStep(fr, tree) ==
    LET j == find_json_for_file(Step(fr, "sidecar"), tree)
    IN  IF j.exc # "none" THEN j
        ELSE
        LET d == get_date_str_from_json(j, j.json)
        IN  IF d.exc # "none" THEN d
            ELSE
            LET meta_date == Strftime(j.json.photoTakenTime.ts)
                g == set_file_geo_data(d, j.json)
            IN  IF g.exc # "none" THEN g
                ELSE
                LET e == set_file_exif_date(g, "sidecar", meta_date)
                IN  IF e.exc # "none" THEN e
                    ELSE set_creation_date_from_str(e, "sidecar", meta_date)

\* a fix_metadata that goes on to the folder step whatever has_nice_date says
fix_metadata_ignoring_nice_date(fr, tree) ==
    LET s1 == set_creation_date_from_exif(Step(fr, "exif"))
        a  == [Caught(s1) EXCEPT !.has_nice_date = (s1.exc = "none")]
        s2 == SidecarStep(a, tree)
    IN  IF s2.exc = "none" THEN [s2 EXCEPT !.has_nice_date = TRUE]
        ELSE IF s2.exc # "FileNotFoundError" THEN s2
        ELSE FolderFallback(Caught(s2), tree)

\* fix_metadata(file_obj), lines 603-646
fix_metadata(fr, tree) ==
    LET s1 == set_creation_date_from_exif(Step(fr, "exif"))
        \* except (InvalidImageDataError, ValueError, IOError)
        a  == [Caught(s1) EXCEPT !.has_nice_date = (s1.exc = "none")]
        s2 == SidecarStep(a, tree)
    IN  IF s2.exc = "none" THEN [s2 EXCEPT !.has_nice_date = TRUE]
        ELSE IF s2.exc # "FileNotFoundError" THEN s2
        ELSE IF a.has_nice_date THEN Caught(s2)
        ELSE FolderFallback(Caught(s2), tree)


(***************************************************************************)
(* SpecFix: for_all_files_recursive(PHOTOS_DIR, fix_metadata, media        *)
(* filter), lines 716-720.  The walk hands the classified media files      *)
(* 1..NumMedia to fix_metadata in order; directories and other files have  *)
(* no effect (folder_function and a failed filter do nothing).  An         *)
(* exception that leaves fix_metadata leaves for_all_files_recursive and   *)
(* main as well (logger.catch logs it after main has been unwound).        *)
(***************************************************************************)
Folders == 1..NumFolders

AlbumInputs == { [kind |-> "none", ts |-> 0], [kind |-> "nodate", ts |-> 0],
                 [kind |-> "ok", ts |-> 1600000000] }

\* file 1 is in folder 1; a later file is in a folder already used or the next one
FolderMaps ==
    { fo \in [1..NumMedia -> Folders] :
          /\ fo[1] = 1
          /\ \A f \in 2..NumMedia : \E g \in 1..(f - 1) : fo[f] <= fo[g] + 1 }

FixTrees ==
    { t \in [folder_of : FolderMaps, titled : SUBSET (1..NumMedia),
             has_titles : [Folders -> BOOLEAN], album : [Folders -> AlbumInputs]] :
          /\ \A f \in t.titled : t.has_titles[t.folder_of[f]]
          /\ \A d \in Folders :
                (\A f \in 1..NumMedia : t.folder_of[f] # d) =>
                    (~t.has_titles[d] /\ t.album[d].kind = "none") }

\* what piexif finds in the file before fix_metadata touches it
ExifInputs ==
    { [loadable |-> FALSE, tags |-> << NoTag, NoTag, NoTag >>, gps |-> NoGps],
      [loadable |-> TRUE, tags |-> << NoTag, NoTag, NoTag >>, gps |-> NoGps],
      [loadable |-> TRUE, gps |-> NoGps,
       tags |-> << Tag(DateStr("colon", 1262304000)), Tag(DateStr("dash", 1293840000)), NoTag >>],
      [loadable |-> TRUE, gps |-> NoGps,
       tags |-> << Tag(DateStr("garbage", 0)), Tag(DateStr("padded", 1293840000)),
                   Tag(DateStr("colon", 1325376000)) >>],
      [loadable |-> TRUE, tags |-> << NoTag, Tag(DateStr("garbage", 0)), NoTag >>, gps |-> NoGps] }

NoTaken == [present |-> FALSE, ts |-> 0]

Taken(ts) == [present |-> TRUE, ts |-> ts]

Json(taken, geoData, geoDataExif) ==
    [photoTakenTime |-> taken, geoData |-> geoData, geoDataExif |-> geoDataExif]

NoJson == Json(NoTaken, NoGeo, NoGeo)

\* the sidecars of a walk: without photoTakenTime, without geoData, with all-zero
\* geoData and no geoDataExif, with zero or non-numeric geoData and a geoDataExif
\* position, with a geoData position, with no position at all
JsonInputs ==
    { NoJson,
      Json(Taken(1577836800), NoGeo, NoGeo),
      Json(Taken(1577836800), Geo(Num(0), Num(0), Num(0)), NoGeo),
      Json(Taken(1577836800), Geo(NotNum, Num(0), Num(0)), Geo(Num(45), Num(-122), Num(30))),
      Json(Taken(1577836800), Geo(Num(45), Num(-122), Num(0)), NoGeo),
      Json(Taken(1577836800), Geo(Num(0), Num(0), Num(0)), Geo(Num(0), Num(0), Num(0))) }

\* what one fix_metadata call meets: the file's EXIF, its sidecar, and what the
\* environment lets the call do (os.utime, the two piexif.insert calls)
FixInputs(f) ==
    { i \in [exif : ExifInputs, utime_ok : BOOLEAN,
             literal : { "absent", "malformed", "parsed" }, json : JsonInputs,
             gps_insert_ok : BOOLEAN, date_insert_ok : BOOLEAN] :
          \* a sidecar nobody reads is left out
          /\ (i.literal # "parsed" /\ f \notin in_tree.titled) => i.json = NoJson
          /\ (i.literal = "malformed") => i.json = NoJson
          /\ (i.json = NoJson) => i.gps_insert_ok }

IdleFrame ==
    [file |-> 0, folder |-> 0, exif0 |-> EmptyExif, exif |-> EmptyExif, mtime |-> 0,
     utime_ok |-> TRUE, literal |-> "absent", json |-> NoJson,
     gps_insert_ok |-> TRUE, date_insert_ok |-> TRUE,
     json_found |-> FALSE, has_nice_date |-> FALSE, meta_date |-> NoTag,
     str_calls |-> << >>, exif_date_calls |-> << >>, gps_calls |-> << >>, steps |-> {},
     json_reads |-> {},
     s_cant_insert_exif_files |-> << >>, s_date_from_folder_files |-> << >>,
     s_no_json_found |-> << >>, s_no_date_at_all |-> << >>,
     all_jsons_dict |-> {}, album_cache |-> << >>, index_scans |-> << >>,
     album_scans |-> << >>, exc |-> "none"]

\* the frame of fix_metadata(f) as the call begins
NewFrame(f, i) ==
    [IdleFrame EXCEPT !.file = f, !.folder = in_tree.folder_of[f],
                      !.exif0 = i.exif, !.exif = i.exif,
                      !.utime_ok = i.utime_ok, !.literal = i.literal, !.json = i.json,
                      !.gps_insert_ok = i.gps_insert_ok, !.date_insert_ok = i.date_insert_ok,
                      !.s_cant_insert_exif_files = s_cant_insert_exif_files,
                      !.s_date_from_folder_files = s_date_from_folder_files,
                      !.s_no_json_found = s_no_json_found,
                      !.s_no_date_at_all = s_no_date_at_all,
                      !.all_jsons_dict = all_jsons_dict, !.album_cache = album_cache,
                      !.index_scans = index_scans, !.album_scans = album_scans]

IdleFix ==
    /\ in_tree = [folder_of |-> << >>, titled |-> {}, has_titles |-> << >>, album |-> << >>]
    /\ fx_pc = "idle"
    /\ fx_next = 1
    /\ s_cant_insert_exif_files = << >>
    /\ s_date_from_folder_files = << >>
    /\ s_no_json_found = << >>
    /\ s_no_date_at_all = << >>
    /\ all_jsons_dict = {}
    /\ album_cache = << >>
    /\ index_scans = << >>
    /\ album_scans = << >>
    /\ cur = IdleFrame


(***************************************************************************)
(* SpecDedup: remove_duplicates(dir=FIXED_DIR), possibly called again in   *)
(* the same process.                                                       *)
(***************************************************************************)
\* what can be wrong with a file: not a media suffix, stat fails, open fails
FaultKinds == { "notmedia", "nostat", "noread" }

FileRec(content, fault) ==
    [content |-> content,
     suffix  |-> IF fault = "notmedia" THEN ".json" ELSE ".jpg",
     access  |-> IF fault \in { "nostat", "noread" } THEN fault ELSE "ok"]

\* the trees with at most MaxFaulty faulty files
Trees ==
    { [i \in 1..NumFiles |-> FileRec(c[i], IF i \in DOMAIN fk THEN fk[i] ELSE "none")] :
          c \in [1..NumFiles -> Contents],
          fk \in UNION { [bad -> FaultKinds] :
                            bad \in { b \in SUBSET (1..NumFiles) : Cardinality(b) <= MaxFaulty } } }

IdleDedup ==
    /\ out_tree = << >>
    /\ on_disk = {}
    /\ files_by_full_hash = << >>
    /\ s_removed_duplicates_count = 0
    /\ dd_pc = "idle"
    /\ dd_runs = 0
    /\ groups_at_scan = << >>
    /\ unlink_log = << >>
    /\ hash_calls = [partial |-> {}, full |-> {}]

IdleNamer ==
    /\ target_init = {}
    /\ target_files = {}
    /\ rename_map = << >>
    /\ s_copied_files = 0
    /\ nm_walked = 0
    /\ nm_calls = << >>

IdleAlbum ==
    /\ in_files = << >>
    /\ album_mmap = << >>
    /\ al_next = 1
    /\ al_pc = "idle"

InitDedup ==
    /\ IdleNamer
    /\ IdleFix
    /\ IdleAlbum
    /\ out_tree \in Trees
    /\ on_disk = 1..NumFiles
    /\ files_by_full_hash = << >>
    /\ s_removed_duplicates_count = 0
    /\ dd_pc = "idle"
    /\ dd_runs = 0
    /\ groups_at_scan = << >>
    /\ unlink_log = << >>
    /\ hash_calls = [partial |-> {}, full |-> {}]

\* remove_duplicates, line 325: the call of find_duplicates
FindDuplicates ==
    /\ dd_pc \in { "idle", "returned" }
    /\ dd_runs < MaxRuns
    /\ files_by_full_hash' = find_duplicates(out_tree, on_disk, files_by_full_hash)
    /\ groups_at_scan' = files_by_full_hash'
    /\ hash_calls' = find_duplicates_hash_calls(out_tree, on_disk)
    /\ dd_runs' = dd_runs + 1
    /\ dd_pc' = "scanned"
    /\ UNCHANGED << out_tree, on_disk, s_removed_duplicates_count, unlink_log >>
    /\ UNCHANGED << nmVars, fxVars, alVars >>

\* remove_duplicates, lines 326-339: the removal loops
RemoveLoop ==
    /\ dd_pc = "scanned"
    /\ \E failing \in { {} } \cup { { f } : f \in on_disk } :
          LET st == RemoveGroups([groups  |-> files_by_full_hash,
                                  disk    |-> on_disk,
                                  count   |-> s_removed_duplicates_count,
                                  log     |-> unlink_log,
                                  crashed |-> FALSE], 1, failing)
          IN  /\ files_by_full_hash' = st.groups
              /\ on_disk' = st.disk
              /\ s_removed_duplicates_count' = st.count
              /\ unlink_log' = st.log
              /\ dd_pc' = IF st.crashed THEN "crashed" ELSE "returned"
    /\ UNCHANGED << out_tree, dd_runs, groups_at_scan, hash_calls >>
    /\ UNCHANGED << nmVars, fxVars, alVars >>

NextDedup == FindDuplicates \/ RemoveLoop

SpecDedup == InitDedup /\ [][NextDedup]_vars

(***************************************************************************)
(* Names in FIXED_DIR.  A name is [base, ctr, ext]: the text base, then    *)
(* one "(i)" per element of ctr, then the suffix ext; Path.stem is base    *)
(* with its counters and Path.suffix is ext.                               *)
(***************************************************************************)
Name(base, ctr, ext) == [base |-> base, ctr |-> ctr, ext |-> ext]

\* file.with_name(f"{file.stem}({i}){file.suffix}")
WithCounter(file, i) == [file EXCEPT !.ctr = Append(@, i)]

\* rename_map[key] = value
DictSet(map, key, value) ==
    [k \in DOMAIN map \cup { key } |-> IF k = key THEN value ELSE map[k]]

\* new_name_if_exists(file), lines 662-670: the loop from its state (new_name, i);
\* yields the returned name and the rename_map it leaves
RECURSIVE NewNameLoop(_, _, _, _, _)
NewNameLoop(file, new_name, i, existing, map) ==
    IF new_name \notin existing
    THEN [name |-> new_name, map |-> map]
    ELSE NewNameLoop(file, WithCounter(file, i), i + 1, existing,
                     DictSet(map, file, WithCounter(file, i)))

\* mutant: the counter starts at 0
new_name_if_exists_from_zero(file, existing, map) ==
    NewNameLoop(file, file, 0, existing, map)

new_name_if_exists(file, existing, map) == NewNameLoop(file, file, 1, existing, map)

(***************************************************************************)
(* SpecNamer: for_all_files_recursive(PHOTOS_DIR, copy_to_target).  The    *)
(* input tree may hold any number of files of one name (in different       *)
(* folders), and names that already end in a counter.  FIXED_DIR is made   *)
(* with exist_ok=True, so it may hold files when the run begins.           *)
(***************************************************************************)
InputNames ==
    { Name(b, c, ".jpg") : b \in { "IMG", "PIC" }, c \in { << >>, << 1 >> } }
        \cup { Name("IMG", << >>, ".json") }

InitialTargets == SUBSET { Name("IMG", << >>, ".jpg"), Name("IMG", << 1 >>, ".jpg") }

InitNamer ==
    /\ IdleDedup
    /\ IdleFix
    /\ IdleAlbum
    /\ target_init \in InitialTargets
    /\ target_files = target_init
    /\ rename_map = << >>
    /\ s_copied_files = 0
    /\ nm_walked = 0
    /\ nm_calls = << >>

\* copy_to_target(file), lines 683-688, for the input file named `file`
CopyToTarget(file) ==
    /\ nm_walked < MaxCopies
    /\ MediaFilter(file.ext)
    /\ LET r == new_name_if_exists(file, target_files, rename_map)
       IN  /\ rename_map' = r.map
           /\ target_files' = target_files \cup { r.name }     \* shutil.copy2
           /\ nm_calls' = Append(nm_calls, [proposed   |-> file,
                                            returned   |-> r.name,
                                            existing   |-> target_files,
                                            map_before |-> rename_map,
                                            map_after  |-> r.map])
    /\ s_copied_files' = s_copied_files + 1
    /\ nm_walked' = nm_walked + 1
    /\ UNCHANGED << target_init, ddVars, fxVars, alVars >>

\* copy_to_target(file) for a file that is neither photo nor video
CopySkipsNonMedia(file) ==
    /\ nm_walked < MaxCopies
    /\ ~MediaFilter(file.ext)
    /\ nm_walked' = nm_walked + 1
    /\ UNCHANGED << target_init, target_files, rename_map, s_copied_files, nm_calls, ddVars,
                    fxVars, alVars >>

NextNamer ==
    \/ \E file \in InputNames : CopyToTarget(file)
    \/ \E file \in InputNames : CopySkipsNonMedia(file)

SpecNamer == InitNamer /\ [][NextNamer]_vars

InitFix ==
    /\ IdleDedup
    /\ IdleNamer
    /\ IdleAlbum
    /\ in_tree \in FixTrees
    /\ fx_pc = "walk"
    /\ fx_next = 1
    /\ s_cant_insert_exif_files = << >>
    /\ s_date_from_folder_files = << >>
    /\ s_no_json_found = << >>
    /\ s_no_date_at_all = << >>
    /\ all_jsons_dict = {}
    /\ album_cache = [d \in Folders |-> "unset"]
    /\ index_scans = [d \in Folders |-> 0]
    /\ album_scans = [d \in Folders |-> 0]
    /\ cur = IdleFrame

\* for_all_files_recursive, line 172: file_function(directory_item) for the next
\* media file of the walk
FixMetadata ==
    /\ fx_pc = "walk"
    /\ fx_next <= NumMedia
    /\ \E i \in FixInputs(fx_next) :
          \E r \in { fix_metadata(NewFrame(fx_next, i), in_tree) } :
              /\ cur' = r
              /\ s_cant_insert_exif_files' = r.s_cant_insert_exif_files
              /\ s_date_from_folder_files' = r.s_date_from_folder_files
              /\ s_no_json_found' = r.s_no_json_found
              /\ s_no_date_at_all' = r.s_no_date_at_all
              /\ all_jsons_dict' = r.all_jsons_dict
              /\ album_cache' = r.album_cache
              /\ index_scans' = r.index_scans
              /\ album_scans' = r.album_scans
              /\ fx_pc' = IF r.exc = "none" THEN "walk" ELSE "crashed"
    /\ fx_next' = fx_next + 1
    /\ UNCHANGED << in_tree, ddVars, nmVars, alVars >>

\* the walk is over: main goes on to the copy phase, lines 721-742
WalkDone ==
    /\ fx_pc = "walk"
    /\ fx_next > NumMedia
    /\ fx_pc' = "copy"
    /\ UNCHANGED << in_tree, fx_next, s_cant_insert_exif_files, s_date_from_folder_files,
                    s_no_json_found, s_no_date_at_all, all_jsons_dict, album_cache,
                    index_scans, album_scans, cur, ddVars, nmVars, alVars >>

NextFix == FixMetadata \/ WalkDone

SpecFix == InitFix /\ [][NextFix]_vars

(***************************************************************************)
(* SpecGeo: set_file_geo_data(file, json) on its own, as fix_metadata      *)
(* calls it at line 626, over a grid of sidecars.  A call starts from an   *)
(* idle frame: the file, its EXIF and the sidecar are the call's inputs.   *)
(***************************************************************************)
\* 45 deg 30' 15.25" and 122 deg 0' 59.996"
GeoNumbers == { 0, 45 * Degree + 30 * ArcMinute + 15250, -(122 * Degree + 59996) }

GeoValues == { NotNum } \cup { Num(v) : v \in GeoNumbers }

\* 0 m, 30.5 m, 1.2 m below sea level
AltitudeValues == { NotNum, Num(0), Num(305), Num(-12) }

GeoBlocks ==
    { NoGeo } \cup { Geo(lat, lon, alt) : lat \in GeoValues, lon \in GeoValues,
                                          alt \in AltitudeValues }

GeoExifInputs ==
    { [loadable |-> FALSE, tags |-> << NoTag, NoTag, NoTag >>, gps |-> NoGps],
      [loadable |-> TRUE, gps |-> NoGps,
       tags |-> << Tag(DateStr("colon", 1262304000)), NoTag, NoTag >>] }

InitGeo ==
    /\ IdleDedup
    /\ IdleNamer
    /\ IdleFix
    /\ IdleAlbum

\* fix_metadata, line 626: set_file_geo_data(file_obj, google_json)
SetFileGeoData ==
    /\ fx_pc = "idle"
    /\ \E geoData \in GeoBlocks, geoDataExif \in GeoBlocks, exif \in GeoExifInputs,
          gps_insert_ok \in BOOLEAN :
          LET json == Json(Taken(1577836800), geoData, geoDataExif)
              fr   == [IdleFrame EXCEPT !.file = 1, !.exif0 = exif, !.exif = exif,
                                        !.literal = "parsed", !.json = json,
                                        !.json_found = TRUE,
                                        !.gps_insert_ok = gps_insert_ok]
          IN  \E r \in { set_file_geo_data(fr, json) } : cur' = r
    /\ fx_pc' = "returned"
    /\ UNCHANGED << in_tree, fx_next, s_cant_insert_exif_files,
                    s_date_from_folder_files, s_no_json_found, s_no_date_at_all,
                    all_jsons_dict, album_cache, index_scans, album_scans, ddVars, nmVars, alVars >>

NextGeo == SetFileGeoData

SpecGeo == InitGeo /\ [][NextGeo]_vars

(***************************************************************************)
(* SpecExif: one call of set_creation_date_from_exif(file), over a grid of *)
(* EXIF blocks: each of the three date tags is absent, unreadable, or      *)
(* holds its own moment in one of three spellings; piexif.load and         *)
(* os.utime succeed or fail.                                               *)
(***************************************************************************)
\* the moment tag k holds: 1 January 2010, 2011, 2012
TagMoment(k) == 1262304000 + (k - 1) * 31536000

TagInputs(k) ==
    { NoTag, Tag(DateStr("garbage", 0)) }
        \cup { Tag(DateStr(fmt, TagMoment(k))) : fmt \in { "colon", "dash", "long" } }

TagGridInputs ==
    { [loadable |-> l, tags |-> << t1, t2, t3 >>, gps |-> NoGps] :
          l \in BOOLEAN, t1 \in TagInputs(1), t2 \in TagInputs(2), t3 \in TagInputs(3) }

InitExif ==
    /\ IdleDedup
    /\ IdleNamer
    /\ IdleFix
    /\ IdleAlbum

\* fix_metadata, line 613: set_creation_date_from_exif(file_obj)
SetCreationDateFromExif ==
    /\ fx_pc = "idle"
    /\ \E exif \in TagGridInputs, utime_ok \in BOOLEAN :
          LET fr == [IdleFrame EXCEPT !.file = 1, !.exif0 = exif, !.exif = exif,
                                      !.utime_ok = utime_ok]
          IN  \E r \in { set_creation_date_from_exif(Step(fr, "exif")) } : cur' = r
    /\ fx_pc' = "exif_returned"
    /\ UNCHANGED << in_tree, fx_next, s_cant_insert_exif_files,
                    s_date_from_folder_files, s_no_json_found, s_no_date_at_all,
                    all_jsons_dict, album_cache, index_scans, album_scans, ddVars, nmVars, alVars >>

NextExif == SetCreationDateFromExif

SpecExif == InitExif /\ [][NextExif]_vars

(***************************************************************************)
(* SpecAlbum: one run of main with --albums json and an empty FIXED_DIR:   *)
(* the fix_metadata walk, the copy walk, remove_duplicates, then           *)
(* populate_album_map on every folder.  The input tree holds up to         *)
(* NumInputs media files, in folders of PHOTOS_DIR, without sidecars; each *)
(* folder may hold an album-metadata JSON.  The content of an input file   *)
(* is what it holds once fix_metadata is through with it, which is what    *)
(* copy2 copies and what populate_album_map hashes.  The frame of a        *)
(* fix_metadata call is not kept in cur here.                              *)
(***************************************************************************)
\* the directory part of a path: FIXED_DIR, or a folder of PHOTOS_DIR (1, 2, ...)
FIXED_DIR == 0

\* str(dir / name)
PathStr(dir, name) == [dir |-> dir, name |-> name]

\* `path in rename_map`: new_name_if_exists stores str(FIXED_DIR / file.name) as
\* the key, and rename_map holds the name part of those keys
RenameMapHas(map, path) == path.dir = FIXED_DIR /\ path.name \in DOMAIN map

\* the name of the copy of input file i in FIXED_DIR
TargetName(i) == nm_calls[i].returned

\* (FIXED_DIR / name).is_file()
IsTargetFile(name) == \E t \in on_disk : TargetName(t) = name

\* the loop of populate_album_map, lines 296-321, from walk index i;
\* st is [album_cache, album_scans, album_mmap, exited]
RECURSIVE AlbumFileLoop(_, _, _)
AlbumFileLoop(st, path, i) ==
    IF i > Len(in_files) THEN st
    ELSE IF in_files[i].folder # path THEN AlbumFileLoop(st, path, i + 1)
    ELSE
    LET file      == in_files[i]
        full_hash == get_hash(file.content, FALSE)
        lookup    == ~IsTargetFile(file.name) /\ MMHas(files_by_full_hash, full_hash)
        full_hash_files ==
            files_by_full_hash[CHOOSE g \in 1..Len(files_by_full_hash) :
                                   files_by_full_hash[g].key = full_hash].files
    IN  IF lookup /\ Len(full_hash_files) # 1
        THEN [st EXCEPT !.exited = TRUE]                                 \* exit(-5)
        ELSE
        LET by_hash   == IF lookup THEN TargetName(full_hash_files[1]) ELSE file.name
            file_name == IF RenameMapHas(rename_map, PathStr(file.folder, file.name))
                         THEN rename_map[file.name]
                         ELSE by_hash
        IN  AlbumFileLoop([st EXCEPT !.album_mmap[path] = Append(@, file_name)], path, i + 1)

\* populate_album_map(path), lines 283-321
populate_album_map(st, path) ==
    LET f == find_album_meta_json_file(st, in_tree, path)
    IN  IF f.album_cache[path] = "None" THEN f
        ELSE AlbumFileLoop(f, path, 1)

InputFiles ==
    [folder : Folders, name : { Name(b, << >>, ".jpg") : b \in { "IMG", "PIC" } },
     content : { << 0, 0 >>, << 0, 1 >> }]

\* the walks of PHOTOS_DIR: folder by folder, no path twice
InputWalks ==
    { w \in UNION { [1..n -> InputFiles] : n \in 1..NumInputs } :
          \A i, j \in DOMAIN w :
              i < j => /\ w[i].folder <= w[j].folder
                       /\ ~(w[i].folder = w[j].folder /\ w[i].name = w[j].name) }

\* what a fix_metadata call of the run meets: no EXIF date or a valid one, no
\* sidecar, an environment that lets every write through
WalkFixInputs ==
    { [exif |-> e, utime_ok |-> TRUE, literal |-> "absent", json |-> NoJson,
       gps_insert_ok |-> TRUE, date_insert_ok |-> TRUE] :
          e \in { EmptyExif,
                  [loadable |-> TRUE, gps |-> NoGps,
                   tags |-> << Tag(DateStr("colon", 1262304000)), NoTag, NoTag >>] } }

InitAlbum ==
    /\ in_files \in InputWalks
    /\ \E album \in [Folders -> AlbumInputs] :
          in_tree = [folder_of  |-> [i \in 1..Len(in_files) |-> in_files[i].folder],
                     titled     |-> {},
                     has_titles |-> [d \in Folders |-> FALSE],
                     album      |-> album]
    /\ album_mmap = [d \in Folders |-> << >>]
    /\ al_next = 1
    /\ al_pc = "fix"
    /\ fx_pc = "idle"
    /\ fx_next = 1
    /\ s_cant_insert_exif_files = << >>
    /\ s_date_from_folder_files = << >>
    /\ s_no_json_found = << >>
    /\ s_no_date_at_all = << >>
    /\ all_jsons_dict = {}
    /\ album_cache = [d \in Folders |-> "unset"]
    /\ index_scans = [d \in Folders |-> 0]
    /\ album_scans = [d \in Folders |-> 0]
    /\ cur = IdleFrame
    /\ IdleNamer
    /\ IdleDedup

\* main, lines 712-716: fix_metadata on the next media file of the walk
AlbumFixMetadata ==
    /\ al_pc = "fix"
    /\ \E i \in WalkFixInputs :
          \E r \in { fix_metadata(NewFrame(fx_next, i), in_tree) } :
              /\ s_cant_insert_exif_files' = r.s_cant_insert_exif_files
              /\ s_date_from_folder_files' = r.s_date_from_folder_files
              /\ s_no_json_found' = r.s_no_json_found
              /\ s_no_date_at_all' = r.s_no_date_at_all
              /\ all_jsons_dict' = r.all_jsons_dict
              /\ album_cache' = r.album_cache
              /\ index_scans' = r.index_scans
              /\ album_scans' = r.album_scans
              /\ al_pc' = IF r.exc # "none" THEN "crashed"
                          ELSE IF fx_next = Len(in_files) THEN "copy" ELSE "fix"
    /\ fx_next' = fx_next + 1
    /\ UNCHANGED << in_tree, fx_pc, cur, in_files, album_mmap, al_next, ddVars, nmVars >>

\* main, lines 737-741: copy_to_target on the next media file of the walk
AlbumCopyToTarget ==
    /\ al_pc = "copy"
    /\ LET file == in_files[nm_walked + 1]
           r    == new_name_if_exists(file.name, target_files, rename_map)
       IN  /\ rename_map' = r.map
           /\ target_files' = target_files \cup { r.name }
           /\ nm_calls' = Append(nm_calls, [proposed   |-> file.name,
                                            returned   |-> r.name,
                                            existing   |-> target_files,
                                            map_before |-> rename_map,
                                            map_after  |-> r.map])
           /\ out_tree' = Append(out_tree, FileRec(file.content, "none"))
           /\ on_disk' = on_disk \cup { nm_walked + 1 }
    /\ s_copied_files' = s_copied_files + 1
    /\ nm_walked' = nm_walked + 1
    /\ al_pc' = IF nm_walked + 1 = Len(in_files) THEN "dedup" ELSE "copy"
    /\ UNCHANGED << target_init, files_by_full_hash, s_removed_duplicates_count, dd_pc,
                    dd_runs, groups_at_scan, unlink_log, hash_calls,
                    in_files, album_mmap, al_next, fxVars >>

\* main, line 746: remove_duplicates(dir=FIXED_DIR)
AlbumRemoveDuplicates ==
    /\ al_pc = "dedup"
    /\ \E failing \in { {} } \cup { { f } : f \in on_disk } :
          \E scan \in { find_duplicates(out_tree, on_disk, files_by_full_hash) } :
              LET st == RemoveGroups([groups  |-> scan,
                                      disk    |-> on_disk,
                                      count   |-> s_removed_duplicates_count,
                                      log     |-> unlink_log,
                                      crashed |-> FALSE], 1, failing)
              IN  /\ groups_at_scan' = scan
                  /\ files_by_full_hash' = st.groups
                  /\ on_disk' = st.disk
                  /\ target_files' = { TargetName(t) : t \in st.disk }
                  /\ s_removed_duplicates_count' = st.count
                  /\ unlink_log' = st.log
                  /\ dd_pc' = IF st.crashed THEN "crashed" ELSE "returned"
                  /\ al_pc' = IF st.crashed THEN "crashed" ELSE "albums"
    /\ hash_calls' = find_duplicates_hash_calls(out_tree, on_disk)
    /\ dd_runs' = dd_runs + 1
    /\ UNCHANGED << out_tree, target_init, rename_map, s_copied_files, nm_walked, nm_calls,
                    in_files, album_mmap, al_next, fxVars >>

\* main, line 752: populate_album_map on the next folder of PHOTOS_DIR; after
\* the last one album_mmap is dumped to albums.json
AlbumPopulate ==
    /\ al_pc = "albums"
    /\ \E st \in { populate_album_map([album_cache |-> album_cache,
                                       album_scans |-> album_scans,
                                       album_mmap  |-> album_mmap,
                                       exited      |-> FALSE], al_next) } :
          /\ album_cache' = st.album_cache
          /\ album_scans' = st.album_scans
          /\ album_mmap' = st.album_mmap
          /\ al_pc' = IF st.exited THEN "exited"
                      ELSE IF al_next = NumFolders THEN "done" ELSE "albums"
    /\ al_next' = al_next + 1
    /\ UNCHANGED << in_tree, fx_pc, fx_next, s_cant_insert_exif_files,
                    s_date_from_folder_files, s_no_json_found, s_no_date_at_all,
                    all_jsons_dict, index_scans, cur, in_files, ddVars, nmVars >>

NextAlbum ==
    \/ AlbumFixMetadata
    \/ AlbumCopyToTarget
    \/ AlbumRemoveDuplicates
    \/ AlbumPopulate

SpecAlbum == InitAlbum /\ [][NextAlbum]_vars

(***************************************************************************)
(* Claims about duplicate removal.                                         *)
(***************************************************************************)
\* the duplicate groups find_duplicates left in files_by_full_hash
DuplicateGroups == { g \in 1..Len(groups_at_scan) : Len(groups_at_scan[g].files) >= 2 }

Survivors(g) == { f \in Range(groups_at_scan[g].files) : f \in on_disk }

FirstRunReturned == dd_pc = "returned" /\ dd_runs = 1

\* C1: when remove_duplicates has finished, every duplicate group of
\* files_by_full_hash (any size n >= 2) has exactly one member left on disk,
\* the n-1 others having been deleted.
C1_ExactlyOneSurvivor ==
    FirstRunReturned =>
        \A g \in DuplicateGroups : Cardinality(Survivors(g)) = 1

\* C2: when remove_duplicates returns, s_removed_duplicates_count equals the
\* number of files that were actually unlinked during the pass.
C2_CountIsUnlinked ==
    FirstRunReturned => s_removed_duplicates_count = Len(unlink_log)

\* a candidate of find_duplicates that can be read: it exists, passes the media
\* filter, and stat and open succeed
ReadableCandidate(f) ==
    /\ f \in on_disk
    /\ MediaFilter(out_tree[f].suffix)
    /\ out_tree[f].access = "ok"

SameKey(a, b) ==
    \E g \in 1..Len(files_by_full_hash) :
        { a, b } \subseteq Range(files_by_full_hash[g].files)

\* C3: after find_duplicates, two readable files are listed under the same
\* files_by_full_hash key if and only if their full contents are identical; two
\* files of equal size and equal first 1024 bytes that differ in a later byte
\* are never in the same group.
C3_SameKeyIffIdentical ==
    dd_pc = "scanned" =>
        \A a, b \in 1..NumFiles :
            (a # b /\ ReadableCandidate(a) /\ ReadableCandidate(b)) =>
                (SameKey(a, b) <=> out_tree[a].content = out_tree[b].content)

NearCollision(a, b) ==
    /\ StSize(out_tree[a].content) = StSize(out_tree[b].content)
    /\ ReadFirst(out_tree[a].content, 1024) = ReadFirst(out_tree[b].content, 1024)
    /\ out_tree[a].content # out_tree[b].content

\* witness of C3: a scan that saw two identical files and a near-collision of them
C3_Witness ==
    /\ dd_pc = "scanned"
    /\ \E a, b, c \in 1..NumFiles :
          /\ a # b /\ ReadableCandidate(a) /\ ReadableCandidate(b) /\ ReadableCandidate(c)
          /\ out_tree[a].content = out_tree[b].content
          /\ NearCollision(a, c)
          /\ SameKey(a, b)
          /\ ~SameKey(a, c)

\* no two readable candidates still on disk have the same content
NoDuplicateOnDisk ==
    \A a, b \in on_disk :
        (a # b /\ ReadableCandidate(a) /\ ReadableCandidate(b)) =>
            out_tree[a].content # out_tree[b].content

\* C15: a second remove_duplicates in the same process over the survivors of
\* the first, none of them a duplicate of another, deletes no file and leaves
\* s_removed_duplicates_count unchanged, also when two survivors share size
\* and first 1024 bytes.
C15_SecondRunIsNoOp ==
    [][(dd_pc = "scanned" /\ dd_runs = 2 /\ NoDuplicateOnDisk) =>
           /\ on_disk' = on_disk
           /\ s_removed_duplicates_count' = s_removed_duplicates_count]_vars

\* C18: when unlinking one member of a duplicate group fails, only that file
\* is skipped: the removal loops go on and remove_duplicates returns, so that
\* the rest of main runs.
C18_UnlinkFailureIsSkipped == dd_runs = 1 => dd_pc # "crashed"

\* the files find_duplicates puts into files_by_size: they exist, pass the
\* filter and can be stat-ed
SizedCandidate(f) ==
    /\ f \in on_disk
    /\ MediaFilter(out_tree[f].suffix)
    /\ out_tree[f].access # "nostat"

SameSize(a, b) == StSize(out_tree[a].content) = StSize(out_tree[b].content)

SameSmallKey(a, b) ==
    /\ SameSize(a, b)
    /\ get_hash(out_tree[a].content, TRUE) = get_hash(out_tree[b].content, TRUE)

\* C16: in find_duplicates get_hash is called in partial mode on a file only
\* if another candidate has its byte size, and in full mode only if another
\* file shares its (size, partial hash) pair; every file that shares that pair
\* with another readable file is full-hashed; and no file is in a group
\* without a full-hash computation.
C16_HashingIsTiered ==
    dd_pc = "scanned" =>
        /\ \A f \in hash_calls.partial :
              /\ SizedCandidate(f)
              /\ \E g \in 1..NumFiles : g # f /\ SizedCandidate(g) /\ SameSize(f, g)
        /\ \A f \in hash_calls.full :
              /\ f \in hash_calls.partial
              /\ \E g \in hash_calls.partial : g # f /\ SameSmallKey(f, g)
        /\ \A f, g \in 1..NumFiles :
              (f # g /\ ReadableCandidate(f) /\ ReadableCandidate(g) /\ SameSmallKey(f, g))
                  => f \in hash_calls.full
        /\ dd_runs = 1 =>
              \A k \in 1..Len(files_by_full_hash) :
                  Range(files_by_full_hash[k].files) \subseteq hash_calls.full

\* a scan that stopped one file after the partial hash and full-hashed two others
C16_Witness ==
    /\ dd_pc = "scanned"
    /\ dd_runs = 1
    /\ hash_calls.partial \ hash_calls.full # {}
    /\ \E f, g \in hash_calls.full : f # g /\ ~SameKey(f, g)
    /\ \E f \in 1..NumFiles : ReadableCandidate(f) /\ f \notin hash_calls.partial

(***************************************************************************)
(* Claims about new_name_if_exists.                                        *)
(***************************************************************************)
\* one call of new_name_if_exists meets its contract
NamerCallOk(c) ==
    /\ c.returned \notin c.existing
    /\ c.proposed \notin c.existing =>
          /\ c.returned = c.proposed
          /\ c.map_after = c.map_before
    /\ c.proposed \in c.existing =>
          \E i \in 1..(Cardinality(c.existing) + 1) :
              /\ c.returned = WithCounter(c.proposed, i)
              /\ \A j \in 1..(i - 1) : WithCounter(c.proposed, j) \in c.existing
              /\ c.proposed \in DOMAIN c.map_after
              /\ c.map_after[c.proposed] = c.returned

C9_RenameMapAppendOnly ==
    [][\A k \in DOMAIN rename_map :
          k \in DOMAIN rename_map' /\ rename_map'[k] = rename_map[k]]_vars

(***************************************************************************)
(* Claims about fix_metadata.  They are stated on cur, the frame the last  *)
(* fix_metadata call ended with (cur.file = 0 before the first call).      *)
(***************************************************************************)
Called == cur.file # 0

\* the date the sidecar of the last call names, as get_date_str_from_json writes it
SidecarDate == Strftime(cur.json.photoTakenTime.ts)

AllTagsAre(str) == \A k \in 1..3 : cur.exif.tags[k] = Tag(str)

\* the calls of set_creation_date_from_str made by steps 2, 3 and 4
IsChainWrite(c) == c.step # "exif"

ChainTimestampWrites == SelectSeq(cur.str_calls, IsChainWrite)

\* the lookup gave a record with the required capture timestamp, and the
\* environment refuses none of the writes
ValidSidecarRecord ==
    /\ Called
    /\ cur.json_found
    /\ cur.json.photoTakenTime.present
    /\ cur.utime_ok /\ cur.date_insert_ok /\ cur.gps_insert_ok

\* C4: whenever the sidecar lookup yields a valid record, the three EXIF date
\* tags and the filesystem timestamp end up equal to the sidecar date, and
\* neither the folder step nor the default fallback runs for the file.
C4_SidecarAuthoritative ==
    ValidSidecarRecord =>
        /\ cur.exc = "none"
        /\ AllTagsAre(SidecarDate)
        /\ cur.mtime = cur.json.photoTakenTime.ts
        /\ cur.steps \cap { "folder", "default" } = {}

\* C5: no error raised while fixing one media file is fatal: the walk goes
\* on to every remaining media file and main reaches the later phases.
C5_NoErrorIsFatal == fx_pc \in { "walk", "copy" }

\* C6: every EXIF write failure of the chain, the date-tag insert or the GPS
\* insert, adds the file to s_cant_insert_exif_files and does not abort the
\* rest of the chain (the timestamp write still follows).
C6_WriteFailuresRecorded ==
    (/\ Called
     /\ \/ \E k \in DOMAIN cur.gps_calls : ~cur.gps_calls[k].inserted
        \/ \E k \in DOMAIN cur.exif_date_calls : ~cur.exif_date_calls[k].inserted)
    => /\ cur.file \in Range(cur.s_cant_insert_exif_files)
       /\ ChainTimestampWrites # << >>

\* C7: in steps 2, 3 and 4 every EXIF date write is followed by a filesystem
\* timestamp write of the same step with the same date string, whether or
\* not the EXIF insert succeeded.
C7_TimestampFollowsExifWrite ==
    /\ Len(ChainTimestampWrites) = Len(cur.exif_date_calls)
    /\ \A k \in DOMAIN cur.exif_date_calls :
          /\ ChainTimestampWrites[k].step = cur.exif_date_calls[k].step
          /\ ChainTimestampWrites[k].step \in { "sidecar", "folder", "default" }
          /\ ChainTimestampWrites[k].date = cur.exif_date_calls[k].date

\* a call whose EXIF insert failed and whose timestamp write was made all the same
C7_Witness ==
    /\ Called
    /\ \E k \in DOMAIN cur.exif_date_calls :
          /\ ~cur.exif_date_calls[k].inserted
          /\ k \in DOMAIN ChainTimestampWrites
          /\ ChainTimestampWrites[k].date = cur.exif_date_calls[k].date
          /\ ChainTimestampWrites[k].ok

\* no tag of the file's own EXIF can be read as a date
NoUsableEmbeddedDate ==
    \/ ~cur.exif0.loadable
    \/ \A k \in 1..3 : ~cur.exif0.tags[k].present \/ ~Strptime(NormalizeDate(cur.exif0.tags[k].str))

\* a media file with no usable embedded date, no sidecar, no album JSON
NothingToGoOn ==
    /\ Called
    /\ NoUsableEmbeddedDate
    /\ cur.literal = "absent" /\ cur.file \notin in_tree.titled
    /\ in_tree.album[cur.folder].kind = "none"

\* C10 as stated: for such a file the sentinel 1971:01:01 01:01:01 ends up in
\* the three EXIF date tags and as the filesystem timestamp, and the file is
\* in s_no_date_at_all.
C10_SentinelWritten ==
    NothingToGoOn =>
        /\ AllTagsAre(DATE_NOT_FOUND_DATE)
        /\ cur.mtime = DATE_NOT_FOUND_DATE.ts
        /\ cur.file \in Range(cur.s_no_date_at_all)

\* C10 amended: for such a file the sentinel is handed to the EXIF date write
\* and to the timestamp write and the file is in s_no_date_at_all; the tags
\* hold the sentinel when the insert succeeds, otherwise the file's EXIF is
\* as it was and the file is in s_cant_insert_exif_files; the timestamp is
\* the sentinel when the timestamp write succeeds, otherwise it is untouched
\* and ValueError leaves fix_metadata.
C10_SentinelAttempted ==
    NothingToGoOn =>
        /\ cur.file \in Range(cur.s_no_date_at_all)
        /\ cur.exif_date_calls = << [step |-> "default", date |-> DATE_NOT_FOUND_DATE,
                                     inserted |-> cur.date_insert_ok] >>
        /\ ChainTimestampWrites = << [step |-> "default", date |-> DATE_NOT_FOUND_DATE,
                                      ok |-> cur.utime_ok] >>
        /\ IF cur.date_insert_ok
           THEN AllTagsAre(DATE_NOT_FOUND_DATE)
           ELSE /\ cur.exif = cur.exif0
                /\ cur.file \in Range(cur.s_cant_insert_exif_files)
        /\ IF cur.utime_ok
           THEN cur.mtime = DATE_NOT_FOUND_DATE.ts /\ cur.exc = "none"
           ELSE cur.mtime = 0 /\ cur.exc = "ValueError"

\* such a file after a call in which both writes went through
C10_Witness ==
    /\ NothingToGoOn
    /\ cur.date_insert_ok /\ cur.utime_ok
    /\ AllTagsAre(DATE_NOT_FOUND_DATE)
    /\ cur.mtime = DATE_NOT_FOUND_DATE.ts
    /\ cur.steps = { "exif", "sidecar", "folder", "default" }

GeoDataBlankIn(json) ==
    /\ str_to_float(json.geoData.latitude) = 0
    /\ str_to_float(json.geoData.longitude) = 0

NoSidecar == cur.literal = "absent" /\ cur.file \notin in_tree.titled

\* the date of the folder's album JSON, as get_date_from_folder_meta writes it
AlbumDate == Strftime(in_tree.album[cur.folder].ts)

\* a media file with no usable embedded date and no sidecar, in a folder whose
\* album JSON has albumData.date.timestamp
AlbumDated ==
    /\ Called
    /\ fx_pc # "returned"
    /\ NoUsableEmbeddedDate
    /\ NoSidecar
    /\ in_tree.album[cur.folder].kind = "ok"

\* C11 as stated: for such a file the album timestamp ends up in the EXIF date
\* tags and as the filesystem timestamp, no GPS write is made, the file is in
\* s_date_from_folder_files and not in s_no_date_at_all.
C11_AlbumDateWritten ==
    AlbumDated =>
        /\ AllTagsAre(AlbumDate)
        /\ cur.mtime = in_tree.album[cur.folder].ts
        /\ cur.gps_calls = << >>
        /\ cur.file \in Range(cur.s_date_from_folder_files)
        /\ cur.file \notin Range(cur.s_no_date_at_all)

\* C11 amended: for such a file the album date is handed to the EXIF date
\* write and to the timestamp write, no GPS write is made and the file is not
\* in s_no_date_at_all; the tags hold the album date when the insert succeeds,
\* otherwise the EXIF is as it was and the file is in
\* s_cant_insert_exif_files; when the timestamp write succeeds the timestamp
\* is the album date and the file is in s_date_from_folder_files, otherwise
\* the timestamp is untouched, ValueError leaves fix_metadata and the file is
\* not in s_date_from_folder_files.
C11_AlbumDateAttempted ==
    AlbumDated =>
        /\ cur.file \notin Range(cur.s_no_date_at_all)
        /\ cur.gps_calls = << >>
        /\ cur.exif.gps = cur.exif0.gps
        /\ cur.exif_date_calls = << [step |-> "folder", date |-> AlbumDate,
                                     inserted |-> cur.date_insert_ok] >>
        /\ ChainTimestampWrites = << [step |-> "folder", date |-> AlbumDate,
                                      ok |-> cur.utime_ok] >>
        /\ IF cur.date_insert_ok
           THEN AllTagsAre(AlbumDate)
           ELSE /\ cur.exif = cur.exif0
                /\ cur.file \in Range(cur.s_cant_insert_exif_files)
        /\ IF cur.utime_ok
           THEN /\ cur.mtime = in_tree.album[cur.folder].ts
                /\ cur.exc = "none"
                /\ cur.file \in Range(cur.s_date_from_folder_files)
           ELSE /\ cur.mtime = 0
                /\ cur.exc = "ValueError"
                /\ cur.file \notin Range(cur.s_date_from_folder_files)

\* such a file after a call in which both writes went through
C11_Witness ==
    /\ AlbumDated
    /\ cur.date_insert_ok /\ cur.utime_ok
    /\ AllTagsAre(AlbumDate)
    /\ cur.mtime = 1600000000
    /\ cur.file \in Range(cur.s_date_from_folder_files)
    /\ cur.steps = { "exif", "sidecar", "folder" }

UsableTag(k) ==
    cur.exif0.tags[k].present /\ Strptime(NormalizeDate(cur.exif0.tags[k].str))

\* the moment the first usable tag of the file's own EXIF names
EmbeddedDate ==
    LET k == CHOOSE i \in 1..3 : UsableTag(i) /\ \A j \in 1..(i - 1) : ~UsableTag(j)
    IN  cur.exif0.tags[k].str.ts

\* a media file with a valid embedded date tag and no sidecar
EmbeddedOnly ==
    /\ Called
    /\ fx_pc # "returned"
    /\ ~NoUsableEmbeddedDate
    /\ NoSidecar

EmbeddedDateApplied ==
    /\ cur.mtime = EmbeddedDate
    /\ cur.exif_date_calls = << >>
    /\ cur.gps_calls = << >>
    /\ cur.exif = cur.exif0
    /\ cur.steps \cap { "folder", "default" } = {}

C17_GpsBlocksOptional ==
    (/\ Called
     /\ fx_pc # "returned"
     /\ cur.json_found
     /\ cur.json.photoTakenTime.present
     /\ \/ ~cur.json.geoData.present
        \/ GeoDataBlankIn(cur.json) /\ ~cur.json.geoDataExif.present
     /\ cur.utime_ok /\ cur.date_insert_ok)
    => /\ cur.exc = "none"
       /\ AllTagsAre(SidecarDate)
       /\ cur.mtime = cur.json.photoTakenTime.ts

\* the inputs the last call was made with
InputsOf(fr) ==
    [exif |-> fr.exif0, utime_ok |-> fr.utime_ok, literal |-> fr.literal, json |-> fr.json,
     gps_insert_ok |-> fr.gps_insert_ok, date_insert_ok |-> fr.date_insert_ok]

\* what is compared between a call and the same call without any sidecar
ChainOutcome(fr) ==
    [exif |-> fr.exif, mtime |-> fr.mtime, exc |-> fr.exc, steps |-> fr.steps,
     str_calls |-> fr.str_calls, exif_date_calls |-> fr.exif_date_calls,
     gps_calls |-> fr.gps_calls, has_nice_date |-> fr.has_nice_date,
     s_cant_insert_exif_files |-> fr.s_cant_insert_exif_files,
     s_date_from_folder_files |-> fr.s_date_from_folder_files,
     s_no_date_at_all |-> fr.s_no_date_at_all,
     album_cache |-> fr.album_cache]

\* C19: when <name>.json exists and cannot be parsed, find_json_for_file
\* fails as not-found without building or consulting the title index of the
\* folder, and fix_metadata goes on through the remaining steps exactly as
\* for a file with no sidecar at all.
C19_MalformedLiteralIsNotFound ==
    [][(fx_pc = "walk" /\ cur'.file = fx_next /\ cur'.literal = "malformed") =>
           /\ index_scans' = index_scans
           /\ all_jsons_dict' = all_jsons_dict
           /\ ~cur'.json_found
           /\ ChainOutcome(cur') =
                  ChainOutcome(fix_metadata(
                      NewFrame(fx_next, [InputsOf(cur') EXCEPT !.literal = "absent"]),
                      [in_tree EXCEPT !.titled = {}]))]_vars

\* a call for a file whose literal sidecar is malformed while a titled JSON of
\* its folder names it: the index was not touched and the folder step ran
C19_Witness ==
    /\ Called
    /\ cur.literal = "malformed"
    /\ cur.file \in in_tree.titled
    /\ ~cur.json_found
    /\ cur.index_scans[cur.folder] = 0
    /\ cur.folder \notin cur.all_jsons_dict
    /\ "folder" \in cur.steps
    /\ cur.exc = "none"

\* C20: the title index of a folder is built at most once per run, also when
\* the folder holds no JSON with a title.
C20_IndexBuiltOnce == \A d \in DOMAIN index_scans : index_scans[d] <= 1

(***************************************************************************)
(* Claims about set_file_geo_data, on the frame cur of the last call.      *)
(***************************************************************************)
GeoCalled == Called /\ cur.json.geoData.present

\* geoData has neither a non-zero latitude nor a non-zero longitude
GeoDataBlank ==
    /\ str_to_float(cur.json.geoData.latitude) = 0
    /\ str_to_float(cur.json.geoData.longitude) = 0

\* the angle a written DMS triple and its ref stand for, in 1/1000 arc second
DmsAngle(ref, dms) ==
    LET a == dms[1].n * Degree + dms[2].n * ArcMinute + dms[3].n * 10
    IN  IF ref \in { "S", "W" } THEN -a ELSE a

Near(a, b) == a - b <= 5 /\ b - a <= 5

\* the GPS IFD handed to piexif gives the position of block g
WritesPositionOf(ifd, g) ==
    /\ ifd.position
    /\ Near(DmsAngle(ifd.latitude_ref, ifd.latitude), str_to_float(g.latitude))
    /\ Near(DmsAngle(ifd.longitude_ref, ifd.longitude), str_to_float(g.longitude))
    /\ ifd.latitude_ref = (IF str_to_float(g.latitude) >= 0 THEN "N" ELSE "S")
    /\ ifd.longitude_ref = (IF str_to_float(g.longitude) >= 0 THEN "E" ELSE "W")

GeoExifHasPosition ==
    /\ cur.json.geoDataExif.present
    /\ \/ str_to_float(cur.json.geoDataExif.latitude) # 0
       \/ str_to_float(cur.json.geoDataExif.longitude) # 0

\* C13: when geoData latitude and longitude are both zero or non-numeric and
\* geoDataExif has a non-zero latitude or longitude, the coordinates written
\* to the GPS tags are those of geoDataExif; when geoData has a non-zero
\* latitude or longitude they are those of geoData and geoDataExif is not
\* read at all.
C13_GeoDataExifFallback ==
    GeoCalled =>
        /\ (GeoDataBlank /\ GeoExifHasPosition) =>
              /\ cur.exc = "none"
              /\ Len(cur.gps_calls) = 1
              /\ WritesPositionOf(cur.gps_calls[1].gps_ifd, cur.json.geoDataExif)
              /\ cur.gps_calls[1].inserted => cur.exif.gps = cur.gps_calls[1].gps_ifd
        /\ ~GeoDataBlank =>
              /\ cur.exc = "none"
              /\ "geoDataExif" \notin cur.json_reads
              /\ Len(cur.gps_calls) = 1
              /\ WritesPositionOf(cur.gps_calls[1].gps_ifd, cur.json.geoData)
              /\ cur.gps_calls[1].inserted => cur.exif.gps = cur.gps_calls[1].gps_ifd

\* a fallback that wrote a geoDataExif position differing from a non-numeric geoData
C13_Witness ==
    /\ GeoCalled
    /\ GeoDataBlank /\ GeoExifHasPosition
    /\ ~cur.json.geoData.latitude.num
    /\ cur.gps_calls # << >>
    /\ cur.gps_calls[1].inserted
    /\ cur.exif.gps.position
    /\ cur.exif.gps.longitude_ref = "W"
    /\ "geoDataExif" \in cur.json_reads

\* the position set_file_geo_data resolved is (0, 0)
ResolvedPositionIsZero ==
    IF GeoDataBlank
    THEN cur.json.geoDataExif.present /\ ~GeoExifHasPosition
    ELSE FALSE

\* C14: when the resolved latitude and longitude are both zero, the GPS block
\* set_file_geo_data inserts carries no GPS tag at all.
C14_NoGpsTagWhenZero ==
    (GeoCalled /\ ResolvedPositionIsZero) =>
        \A k \in DOMAIN cur.gps_calls :
            /\ ~cur.gps_calls[k].gps_ifd.ifd
            /\ ~cur.gps_calls[k].gps_ifd.position
            /\ ~cur.gps_calls[k].gps_ifd.has_altitude

\* C22: a file whose date came from the default sentinel is counted among the
\* files without any recoverable date and is not also counted among the files
\* whose date came from folder metadata.
C22_SentinelNotCountedAsFolder ==
    Range(s_no_date_at_all) \cap Range(s_date_from_folder_files) = {}

\* C27: for every coordinate magnitude of the grid, degToDmsRational returns
\* minutes in 0..59 and a seconds numerator over 100 in 0..5999, for the
\* latitude and the longitude set_file_geo_data hands to piexif.
C27_DmsNormalised ==
    \A k \in DOMAIN cur.gps_calls :
        cur.gps_calls[k].gps_ifd.position =>
            \A dms \in { cur.gps_calls[k].gps_ifd.latitude,
                         cur.gps_calls[k].gps_ifd.longitude } :
                /\ dms[2].n \in 0..59 /\ dms[2].d = 1
                /\ dms[3].n \in 0..5999 /\ dms[3].d = 100

\* C26: one remove_duplicates pass in a fresh process never loses content: for
\* every content a file of the tree had before the pass, a file with that
\* content is still on disk at every point of the pass, whatever the sizes of
\* the groups and also when a failing unlink ends the pass.
C26_NoContentLost ==
    dd_runs <= 1 =>
        \A f \in 1..NumFiles :
            \E g \in on_disk : out_tree[g].content = out_tree[f].content

\* a pass over a group of three or more that deleted a file and was then ended
\* by a failing unlink
C26_Witness ==
    /\ dd_runs = 1
    /\ dd_pc = "crashed"
    /\ unlink_log # << >>
    /\ \E g \in DOMAIN groups_at_scan : Len(groups_at_scan[g].files) >= 3

\* set_creation_date_from_exif was called on cur.file and is over
ExifCalled == fx_pc = "exif_returned"

\* tag k of the block is present and parses after normalisation
ParseableTag(k) ==
    /\ cur.exif0.loadable
    /\ cur.exif0.tags[k].present
    /\ Strptime(NormalizeDate(cur.exif0.tags[k].str))

FirstParseableTag ==
    CHOOSE k \in 1..3 : ParseableTag(k) /\ \A j \in 1..(k - 1) : ~ParseableTag(j)

\* the call set the timestamp from the first parseable tag, after trying the
\* present tags before it and none after it
FirstParseableTagUsed ==
    /\ cur.exc = "none"
    /\ cur.mtime = cur.exif0.tags[FirstParseableTag].str.ts
    /\ Len(cur.str_calls) =
           Cardinality({ k \in 1..FirstParseableTag : cur.exif0.tags[k].present })
    /\ cur.str_calls[Len(cur.str_calls)].date = cur.exif0.tags[FirstParseableTag].str

\* C25 as stated: set_creation_date_from_exif uses the first tag, in the
\* order DateTime, DateTimeOriginal, DateTimeDigitized, that is present and
\* parses, and fails only when none of the three yields a parseable date.
C25_FirstParseableTagUsed ==
    ExifCalled =>
        IF \E k \in 1..3 : ParseableTag(k)
        THEN FirstParseableTagUsed
        ELSE cur.exc = "IOError" /\ cur.mtime = 0

\* C25 amended: that holds when os.utime succeeds on the file; when it fails,
\* every present tag is tried, the timestamp stays untouched and the step
\* fails with IOError although a tag parses.
C25_FirstApplicableTagUsed ==
    ExifCalled =>
        IF cur.utime_ok /\ \E k \in 1..3 : ParseableTag(k)
        THEN FirstParseableTagUsed
        ELSE /\ cur.exc = "IOError"
             /\ cur.mtime = 0
             /\ Len(cur.str_calls) =
                    IF cur.exif0.loadable
                    THEN Cardinality({ k \in 1..3 : cur.exif0.tags[k].present })
                    ELSE 0

\* DateTime absent, DateTimeOriginal unreadable, DateTimeDigitized used
C25_Witness ==
    /\ ExifCalled
    /\ ~cur.exif0.tags[1].present
    /\ cur.exif0.tags[2].present /\ ~ParseableTag(2)
    /\ cur.exif0.tags[3].str.fmt = "dash"
    /\ cur.exc = "none"
    /\ cur.mtime = TagMoment(3)
    /\ Len(cur.str_calls) = 2

\* C21: find_album_meta_json_file scans a folder at most once in a run; once a
\* folder has a memoized result, also None, no later call, from
\* get_date_from_folder_meta or from populate_album_map, scans it again or
\* changes the result.
C21_AlbumLookupMemoized ==
    [][\A d \in Folders :
           /\ album_scans'[d] <= 1
           /\ album_cache[d] # "unset" =>
                  /\ album_cache'[d] = album_cache[d]
                  /\ album_scans'[d] = album_scans[d]]_vars

\* a folder without album metadata that both callers asked about: a file of it
\* got the default date, and populate_album_map has been on every folder
C21_Witness ==
    /\ al_pc = "done"
    /\ \E i \in 1..Len(in_files) :
          /\ i \in Range(s_no_date_at_all)
          /\ album_cache[in_files[i].folder] = "None"
          /\ album_scans[in_files[i].folder] = 1
    /\ \E d \in Folders : album_cache[d] = "file" /\ album_mmap[d] # << >>

\* C23: after remove_duplicates has returned, every list of files_by_full_hash
\* holds exactly one path, and populate_album_map never takes its exit(-5)
\* branch in a run whose deletions all succeeded.
C23_SingletonListsNoExit ==
    /\ dd_pc = "returned" =>
           \A g \in 1..Len(files_by_full_hash) : Len(files_by_full_hash[g].files) = 1
    /\ al_pc # "exited"

\* the copy of input file i got another name than the file has
Renamed(i) == nm_calls[i].returned # nm_calls[i].proposed

\* C24: once the album export is through, every input file of an album folder
\* whose copy was renamed by new_name_if_exists, and still exists, is listed
\* in album_mmap under the name of its copy.
C24_ListedUnderFinalName ==
    al_pc = "done" =>
        \A i \in 1..Len(in_files) :
            (Renamed(i) /\ i \in on_disk /\ album_cache[in_files[i].folder] = "file") =>
                TargetName(i) \in Range(album_mmap[in_files[i].folder])

====
